---- MODULE Spec2Model ----
(***************************************************************************)
(* A model of bin/solsa.js: the image-reference split, the image rewrite   *)
(* resolver (SolsaArchiver.finalizeImageRenames) and the layer registry    *)
(* and emitter of the yaml command (SolsaArchiver.add*, finalize).         *)
(*                                                                         *)
(* JavaScript strings are sequences of one-character strings, so that      *)
(* indexOf, substring, includes and + are computed and not assumed.        *)
(* An optional value (a property that may be undefined) is a sequence of   *)
(* length at most one: Undef is <<>>, Some(x) is <<x>>.                    *)
(***************************************************************************)
EXTENDS Integers, Sequences, FiniteSets, TLC

VARIABLES pc, name, parts, context, app, i, images, ret, config, layers, layers0, calls, c, files,
          argv, kubectl, file, cfg, errors, thrown, out, status, pushed

\* the state of a run of the command line: its arguments, what kubectl and the
\* configuration file give, the configuration init returns, the warning counter,
\* the exception that ended the run, the output flag and the exit status
cli == <<argv, kubectl, file, cfg, errors, thrown, out, status>>

vars == <<pc, name, parts, context, app, i, images, ret, config, layers, layers0, calls, c, files,
          cli, pushed>>

-----------------------------------------------------------------------------
(* Bounds of the model.                                                    *)

\* longest image reference the split is applied to
MaxLen == 5

\* longest list app.getImages() returns
MaxImages == 3

\* most items app.getResources() yields
MaxItems == 2

\* most entries of config.contexts
MaxContexts == 2

\* most images app.getBuilds() names
MaxBuilds == 2

-----------------------------------------------------------------------------
(* JavaScript values.                                                      *)

Undef == <<>>

Some(x) == <<x>>

\* JavaScript truthiness of an optional string: undefined and "" are falsy
Truthy(o) == o # Undef /\ o[1] # <<>>

Min(S) == CHOOSE x \in S : \A y \in S : x <= y

\* String.prototype.indexOf(ch, from), 0-based, -1 when absent; a negative
\* from (the -1 of an inner indexOf that found nothing) searches from 0
IndexOf(s, ch, from) ==
  LET start == IF from < 0 THEN 0 ELSE from
      hits == {k \in start..(Len(s) - 1) : s[k + 1] = ch}
  IN  IF hits = {} THEN -1 ELSE Min(hits)

\* String.prototype.substring(from, to), 0-based, to exclusive
Substring(s, from, to) == SubSeq(s, from + 1, to)

\* String.prototype.includes(ch)
Includes(s, ch) == \E k \in 1..Len(s) : s[k] = ch

-----------------------------------------------------------------------------
(* The split of an image reference into newName (repo part) and newTag.    *)

\* TagPos with a fault: the search for ':' starts at 0, not at the first '/'
TagPosFromStart(s) == IndexOf(s, ":", 0)

\* const pos = name.indexOf(':', name.indexOf('/'))
TagPos(s) == IndexOf(s, ":", IndexOf(s, "/", 0))

\* newName and newTag as finalizeImageRenames computes them
SplitRef(s) ==
  LET pos == TagPos(s)
  IN  [newName |-> IF pos = -1 THEN s ELSE Substring(s, 0, pos),
       newTag  |-> IF pos = -1 THEN Undef ELSE Some(Substring(s, pos + 1, Len(s)))]

\* newName and newTag as rename computes them (the same three lines, again)
RenameSplitRef(s) ==
  LET pos == IndexOf(s, ":", IndexOf(s, "/", 0))
  IN  [newName |-> IF pos = -1 THEN s ELSE Substring(s, 0, pos),
       newTag  |-> IF pos = -1 THEN Undef ELSE Some(Substring(s, pos + 1, Len(s)))]

-----------------------------------------------------------------------------
(* SplitSpec: the split applied to every reference of length <= MaxLen     *)
(* over a name character, '/' and ':'.                                     *)

Chars == {"a", "/", ":"}

Strings(n) == UNION {[1..k -> Chars] : k \in 0..n}

NoParts == [newName |-> <<>>, newTag |-> Undef]

\* no run of the command line is under way
CliIdle ==
  /\ argv = <<>> /\ kubectl = <<>> /\ file = <<>> /\ cfg = <<>> /\ errors = 0
  /\ thrown = <<>> /\ out = FALSE /\ status = <<>>

Idle ==
  /\ context = <<>> /\ app = <<>> /\ i = 0 /\ images = <<>> /\ ret = <<>>
  /\ config = <<>> /\ layers = <<>> /\ layers0 = <<>> /\ calls = 0 /\ c = 0
  /\ files = <<>>
  /\ CliIdle /\ pushed = <<>>

SplitInit ==
  /\ pc = "start"
  /\ name \in Strings(MaxLen)
  /\ parts = NoParts
  /\ Idle

SplitInFinalize ==
  /\ pc = "start"
  /\ parts' = SplitRef(name)
  /\ pc' = "finalizeImageRenames"
  /\ UNCHANGED <<name, context, app, i, images, ret, config, layers, layers0, calls, c, files, cli, pushed>>

SplitInRename ==
  /\ pc = "start"
  /\ parts' = RenameSplitRef(name)
  /\ pc' = "rename"
  /\ UNCHANGED <<name, context, app, i, images, ret, config, layers, layers0, calls, c, files, cli, pushed>>

SplitNext == SplitInFinalize \/ SplitInRename

SplitSpec == SplitInit /\ [][SplitNext]_vars

-----------------------------------------------------------------------------
(* SolsaArchiver.finalizeImageRenames (context, app).                      *)
(* A context is [name, registry, imageTag, images]: registry and imageTag  *)
(* are optional strings, images an optional list of rules. A rule is       *)
(* [name, newName, newTag] with newName and newTag optional.               *)

\* context.images || []
ExplicitImages(ctx) == IF ctx.images = Undef THEN <<>> ELSE ctx.images[1]

\* AlreadyKustomized with a fault: only the literal reference is looked up
AlreadyKustomizedByNameOnly(ctx, ref, newName) ==
  /\ ctx.images # Undef
  /\ \E k \in 1..Len(ctx.images[1]) : ctx.images[1][k].name = ref

\* context.images && context.images.find(image => image.name === name || image.name === newName)
AlreadyKustomized(ctx, ref, newName) ==
  /\ ctx.images # Undef
  /\ \E k \in 1..Len(ctx.images[1]) :
       \/ ctx.images[1][k].name = ref
       \/ ctx.images[1][k].name = newName

\* AlreadyEncountered with a fault: the check is missing
NeverEncountered(derived, ref) == FALSE

\* images.find(image => image.name === name)
AlreadyEncountered(derived, ref) == \E k \in 1..Len(derived) : derived[k].name = ref

\* Candidate with a fault: the registry is put before a qualified name too
CandidateAlwaysQualified(ctx, ref, newName) ==
  [name    |-> ref,
   newName |-> IF Truthy(ctx.registry)
               THEN Some(ctx.registry[1] \o <<"/">> \o newName)
               ELSE Undef,
   newTag  |-> Undef]

\* const k = { name }
\* if (context.registry && !name.includes('/')) k.newName = context.registry + '/' + newName
Candidate(ctx, ref, newName) ==
  [name    |-> ref,
   newName |-> IF Truthy(ctx.registry) /\ ~Includes(ref, "/")
               THEN Some(ctx.registry[1] \o <<"/">> \o newName)
               ELSE Undef,
   newTag  |-> Undef]

\* Place with a fault: every rule is appended, tagged or not
PlaceAtEnd(ctx, derived, k, newTag) ==
  IF Truthy(newTag)
  THEN Append(derived, k)
  ELSE Append(derived, IF Truthy(ctx.imageTag) THEN [k EXCEPT !.newTag = ctx.imageTag] ELSE k)

\* if (newTag) images.unshift(k) else { if (context.imageTag) k.newTag = context.imageTag; images.push(k) }
Place(ctx, derived, k, newTag) ==
  IF Truthy(newTag)
  THEN <<k>> \o derived
  ELSE Append(derived, IF Truthy(ctx.imageTag) THEN [k EXCEPT !.newTag = ctx.imageTag] ELSE k)

\* one iteration of the loop over app.getImages()
LoopBody(ctx, derived, ref) ==
  LET sp == SplitRef(ref)
  IN  IF AlreadyKustomized(ctx, ref, sp.newName) THEN derived
      ELSE IF AlreadyEncountered(derived, ref) THEN derived
      ELSE Place(ctx, derived, Candidate(ctx, ref, sp.newName), sp.newTag)

\* Returned with a fault: the derived rules come first
ReturnedDerivedFirst(ctx, derived) == derived \o ExplicitImages(ctx)

\* return (context.images || []).concat(images)
Returned(ctx, derived) == ExplicitImages(ctx) \o derived

\* ContextAfterReturn with a fault: the derived rules are pushed onto context.images
ContextAfterPush(ctx, derived) ==
  [ctx EXCEPT !.images = Some(ExplicitImages(ctx) \o derived)]

\* concat builds a new list: the context is as it was when the call returns
ContextAfterReturn(ctx, derived) == ctx

RECURSIVE DerivedFrom(_, _, _)
\* the derived list after the loop has consumed the references refs
DerivedFrom(ctx, derived, refs) ==
  IF refs = <<>> THEN derived
  ELSE DerivedFrom(ctx, LoopBody(ctx, derived, Head(refs)), Tail(refs))

\* the whole call
FinalizeImageRenames(ctx, refs) == Returned(ctx, DerivedFrom(ctx, <<>>, refs))

-----------------------------------------------------------------------------
(* RenameSpec: finalizeImageRenames called twice in a row with the same    *)
(* context and application, one loop iteration per step.                   *)

\* image references: a, a:t, a: (an empty tag), r/a:t, h:p/a (a port, no tag)
Refs ==
  { <<"a">>, <<"a", ":", "t">>, <<"a", ":">>,
    <<"r", "/", "a", ":", "t">>, <<"h", ":", "p", "/", "a">> }

Rule(n, nn, nt) == [name |-> n, newName |-> nn, newTag |-> nt]

\* the images lists a context declares: none, an empty one, an override of a,
\* overrides of r/a:t and h:p/a
ExplicitLists ==
  { Undef,
    Some(<<>>),
    Some(<<Rule(<<"a">>, Some(<<"o", "/", "a">>), Undef)>>),
    Some(<<Rule(<<"r", "/", "a", ":", "t">>, Undef, Some(<<"w">>)),
           Rule(<<"h", ":", "p", "/", "a">>, Some(<<"q", "/", "a">>), Undef)>>) }

OptStrings(x) == {Undef, Some(<<>>), Some(x)}

\* every registry and imageTag (undefined, empty, set) without explicit rules,
\* and every explicit list with both set
RenameContexts ==
  [name : {"dev"}, registry : OptStrings(<<"g">>), imageTag : OptStrings(<<"v">>),
   images : {Undef}]
  \cup
  [name : {"dev"}, registry : {Some(<<"g">>)}, imageTag : {Some(<<"v">>)},
   images : ExplicitLists]

ImageLists(n) == UNION {[1..k -> Refs] : k \in 0..n}

RenameInit ==
  /\ pc = "loop"
  /\ context \in RenameContexts
  /\ app \in ImageLists(MaxImages)
  /\ i = 0
  /\ images = <<>>
  /\ ret = <<>>
  /\ name = <<>> /\ parts = NoParts
  /\ config = <<>> /\ layers = <<>> /\ layers0 = <<>> /\ calls = 0 /\ c = 0
  /\ files = <<>>
  /\ CliIdle /\ pushed = <<>>

\* for (let name of app.getImages()) { ... }
Iterate ==
  /\ pc = "loop"
  /\ i < Len(app)
  /\ images' = LoopBody(context, images, app[i + 1])
  /\ i' = i + 1
  /\ UNCHANGED <<pc, name, parts, context, app, ret, config, layers, layers0, calls, c, files, cli, pushed>>

\* return (context.images || []).concat(images)
Return ==
  /\ pc = "loop"
  /\ i = Len(app)
  /\ ret' = Append(ret, Returned(context, images))
  /\ context' = ContextAfterReturn(context, images)
  /\ pc' = "returned"
  /\ UNCHANGED <<name, parts, app, i, images, config, layers, layers0, calls, c, files, cli, pushed>>

\* the second call, with the same arguments: const images = []
CallAgain ==
  /\ pc = "returned"
  /\ Len(ret) < 2
  /\ images' = <<>>
  /\ i' = 0
  /\ pc' = "loop"
  /\ UNCHANGED <<name, parts, context, app, ret, config, layers, layers0, calls, c, files, cli, pushed>>

RenameNext == Iterate \/ Return \/ CallAgain

RenameSpec == RenameInit /\ [][RenameNext]_vars

-----------------------------------------------------------------------------
(* The layer registry and the emitter of yamlCommand.                      *)
(* An object that is used as a map (layer.resources, layer.patches,        *)
(* layer.patchesJSON, archiver.layers) is the sequence of its entries in   *)
(* insertion order, which is the order Object.keys and Object.values use.  *)

\* class Layer: constructor (name)
NewLayer(l) ==
  [name |-> l, resources |-> <<>>, bases |-> <<>>, patches |-> <<>>,
   patchesJSON |-> <<>>, images |-> <<>>]

\* this.layers = { base: new Layer('base') }
NewArchiverLayers == <<NewLayer("base")>>

\* this.layers[layer] !== undefined
HasLayer(ls, l) == \E k \in 1..Len(ls) : ls[k].name = l

\* the place of this.layers[layer]
LayerAt(ls, l) == CHOOSE k \in 1..Len(ls) : ls[k].name = l

\* getLayer (layer): the registry once the layer has been looked up, created when missing
GetLayer(ls, l) == IF HasLayer(ls, l) THEN ls ELSE Append(ls, NewLayer(l))

\* map[key] = value: an existing key keeps its place, a new one goes last
Put(map, key, value) ==
  IF \E k \in 1..Len(map) : map[k].key = key
  THEN [k \in 1..Len(map) |-> IF map[k].key = key THEN [key |-> key, value |-> value] ELSE map[k]]
  ELSE Append(map, [key |-> key, value |-> value])

\* Object.keys(map)
Keys(map) == [k \in 1..Len(map) |-> map[k].key]

\* the parameter default: layer = 'base'
LayerArg(layer) == IF layer = Undef THEN "base" ELSE layer[1]

\* addResource (obj, fname, layer = 'base')
AddResourceTo(ls, obj, fname, layer) ==
  LET reg == GetLayer(ls, LayerArg(layer))
  IN  [reg EXCEPT ![LayerAt(reg, LayerArg(layer))].resources = Put(@, fname, obj)]

\* addPatch (patch, fname, layer = 'base')
AddPatchTo(ls, patch, fname, layer) ==
  LET reg == GetLayer(ls, LayerArg(layer))
  IN  [reg EXCEPT ![LayerAt(reg, LayerArg(layer))].patches = Put(@, fname, [patch |-> patch])]

\* addJSONPatch (patch, target, layer = 'base')
AddJSONPatchTo(ls, patch, target, layer) ==
  LET reg == GetLayer(ls, LayerArg(layer))
  IN  [reg EXCEPT ![LayerAt(reg, LayerArg(layer))].patchesJSON =
                      Put(@, target.path, [patch |-> patch, target |-> target])]

\* one iteration of finalize's loop over config.contexts
FinalizeContextIn(ls, ctx, refs) ==
  LET reg == GetLayer(ls, ctx.name)
  IN  [reg EXCEPT ![LayerAt(reg, ctx.name)].bases = Append(@, "./../base"),
                  ![LayerAt(reg, ctx.name)].images = FinalizeImageRenames(ctx, refs)]

\* yaml.safeDump(obj): the text written for obj, a wrapping that loses nothing
SafeDump(obj) == <<obj>>

\* writeToFile (obj, fname, layer): fs.writeFileSync replaces what the path held
WriteToFile(fs, obj, fname, layer) ==
  [p \in DOMAIN fs \cup {<<layer, fname>>} |->
     IF p = <<layer, fname>> THEN SafeDump(obj) ELSE fs[p]]

\* the kustomization of a layer (the fields that depend on the layer)
Kustomization(layer) ==
  [bases           |-> layer.bases,
   resources       |-> Keys(layer.resources),
   patches         |-> Keys(layer.patches),
   patchesJson6902 |-> [k \in 1..Len(layer.patchesJSON) |-> layer.patchesJSON[k].value.target],
   images          |-> layer.images]

\* the writeToFile calls finalize makes for one layer, in order, as [obj, fname]
LayerWrites(layer) ==
  [k \in 1..Len(layer.resources) |->
     [obj |-> layer.resources[k].value, fname |-> layer.resources[k].key]]
  \o [k \in 1..Len(layer.patches) |->
     [obj |-> layer.patches[k].value.patch, fname |-> layer.patches[k].key]]
  \o [k \in 1..Len(layer.patchesJSON) |->
     [obj |-> layer.patchesJSON[k].value.patch, fname |-> layer.patchesJSON[k].key]]
  \o <<[obj |-> Kustomization(layer), fname |-> "kustomization.yaml"]>>

RECURSIVE WriteAll(_, _, _)
\* the files once the calls writes have been made for the layer named l
WriteAll(fs, writes, l) ==
  IF writes = <<>> THEN fs
  ELSE WriteAll(WriteToFile(fs, Head(writes).obj, Head(writes).fname, l), Tail(writes), l)

RECURSIVE EmitLayers(_, _)
\* for (let layer of Object.values(this.layers)) { ... }
EmitLayers(fs, ls) ==
  IF ls = <<>> THEN fs
  ELSE EmitLayers(WriteAll(fs, LayerWrites(Head(ls)), Head(ls).name), Tail(ls))

-----------------------------------------------------------------------------
(* Spec: the yaml command from the new archiver on: the items of           *)
(* app.getResources are added one per step, then finalize runs its loop    *)
(* over config.contexts, one context per step, and writes every layer.     *)

\* objects and patches the application yields
Objs == {"o1", "o2"}

Patches == {"p1"}

\* file names of resources and patches, and the paths of JSON patch targets
FileNames == {"svc.yaml", "ing.yaml"}

\* the layer argument of an item: none, the base layer, a context's layer
LayerArgs == {Undef, Some("base"), Some("dev")}

Ctx(n, reg, tag, imgs) == [name |-> n, registry |-> reg, imageTag |-> tag, images |-> imgs]

\* the entries config.contexts can hold: the file is not checked for repeated
\* names, nor for a context called base
ConfigContexts ==
  { Ctx("dev", Some(<<"g">>), Undef, Undef),
    Ctx("dev", Undef, Some(<<"v">>), Undef),
    Ctx("prod", Undef, Undef, Some(<<Rule(<<"a">>, Some(<<"o", "/", "a">>), Undef)>>)),
    Ctx("base", Undef, Some(<<"v">>), Undef) }

Configs(n) == UNION {[1..k -> ConfigContexts] : k \in 0..n}

\* what app.getImages() returns
AppImages == { <<>>, << <<"a">>, <<"a", ":", "t">> >> }

Init ==
  /\ pc = "collect"
  /\ config \in Configs(MaxContexts)
  /\ app \in AppImages
  /\ layers = NewArchiverLayers
  /\ layers0 = <<>>
  /\ calls = 0
  /\ c = 0
  /\ files = <<>>
  /\ name = <<>> /\ parts = NoParts
  /\ context = <<>> /\ i = 0 /\ images = <<>> /\ ret = <<>>
  /\ CliIdle /\ pushed = <<>>

\* if (item.obj) sa.addResource(item.obj, item.name, item.layer)
AddResource ==
  /\ pc = "collect"
  /\ calls < MaxItems
  /\ \E obj \in Objs, fname \in FileNames, layer \in LayerArgs :
       layers' = AddResourceTo(layers, obj, fname, layer)
  /\ calls' = calls + 1
  /\ UNCHANGED <<pc, name, parts, context, app, i, images, ret, config, layers0, c, files, cli, pushed>>

\* else if (item.JSONPatch) sa.addJSONPatch(item.JSONPatch, item.JSONPatchTarget, item.layer)
AddJSONPatch ==
  /\ pc = "collect"
  /\ calls < MaxItems
  /\ \E patch \in Patches, path \in FileNames, layer \in LayerArgs :
       layers' = AddJSONPatchTo(layers, patch, [path |-> path], layer)
  /\ calls' = calls + 1
  /\ UNCHANGED <<pc, name, parts, context, app, i, images, ret, config, layers0, c, files, cli, pushed>>

\* else if (item.patch) sa.addPatch(item.patch, item.name, item.layer)
AddPatch ==
  /\ pc = "collect"
  /\ calls < MaxItems
  /\ \E patch \in Patches, fname \in FileNames, layer \in LayerArgs :
       layers' = AddPatchTo(layers, patch, fname, layer)
  /\ calls' = calls + 1
  /\ UNCHANGED <<pc, name, parts, context, app, i, images, ret, config, layers0, c, files, cli, pushed>>

\* sa.finalize(config, app): the layers it is called with are kept in layers0
Finalize ==
  /\ pc = "collect"
  /\ pc' = "finalize"
  /\ layers0' = layers
  /\ c' = 0
  /\ UNCHANGED <<name, parts, context, app, i, images, ret, config, layers, calls, files, cli, pushed>>

\* for (const context of config.contexts) { ... }
FinalizeContext ==
  /\ pc = "finalize"
  /\ c < Len(config)
  /\ layers' = FinalizeContextIn(layers, config[c + 1], app)
  /\ c' = c + 1
  /\ UNCHANGED <<pc, name, parts, context, app, i, images, ret, config, layers0, calls, files, cli, pushed>>

\* the loop over Object.values(this.layers) that writes the files of every layer
Emit ==
  /\ pc = "finalize"
  /\ c = Len(config)
  /\ files' = EmitLayers(files, layers)
  /\ pc' = "done"
  /\ UNCHANGED <<name, parts, context, app, i, images, ret, config, layers, layers0, calls, c, cli, pushed>>

Next == AddResource \/ AddJSONPatch \/ AddPatch \/ Finalize \/ FinalizeContext \/ Emit

Spec == Init /\ [][Next]_vars

-----------------------------------------------------------------------------
(* The command line: init, the three commands and the exit.                *)
(* A name here (a context name, a command) is a plain string. The value    *)
(* init returns is [kind, contexts, context]: kind says what the parsed    *)
(* document is, contexts is undefined or the list config.contexts, context *)
(* is undefined or the selected context name.                              *)

\* truthiness of an optional name
TruthyName(o) == o # Undef /\ o[1] # ""

\* let config = { contexts: [] }
DefaultConfig == [kind |-> "mapping", contexts |-> Some(<<>>), context |-> Undef]

\* errors++
Warn(n) == n + 1

\* init, lines 33-39: the context name and the counter after them; kubectl is
\* run only when argv.context is falsy, and Undef says that it failed
InitContext(av, kube, n) ==
  IF TruthyName(av.context) THEN [context |-> av.context, errors |-> n]
  ELSE IF kube = Undef THEN [context |-> Undef, errors |-> Warn(n)]
  ELSE [context |-> kube, errors |-> n]

\* config.contexts.find(({ name }) => name === context)
FindContext(contexts, n) == \E k \in 1..Len(contexts) : contexts[k].name = n

\* init, lines 41-63: the configuration returned and the counter after them.
\* f is what reading and parsing the file gives: kind is unreadable (readFileSync
\* throws), unparsable (safeLoad throws), undefined (an empty document), null,
\* scalar, sequence or mapping; f.contexts is the list under contexts, Undef
\* when contexts is missing or not a list.
\*   unreadable, unparsable: the catch counts, config is still { contexts: [] }
\*   undefined, null: config is assigned, config.contexts throws, the catch counts
\*   scalar: contexts is not a list; config.contexts = [] on a primitive is dropped
\*   sequence, mapping: contexts not a list is counted and replaced by []
InitConfig(f, ctxname, n) ==
  IF f.kind \in {"unreadable", "unparsable"}
  THEN [cfg |-> DefaultConfig, errors |-> Warn(n)]
  ELSE IF f.kind \in {"undefined", "null"}
  THEN [cfg |-> [kind |-> f.kind, contexts |-> Undef, context |-> Undef], errors |-> Warn(n)]
  ELSE IF f.kind = "scalar"
  THEN [cfg |-> [kind |-> "scalar", contexts |-> Undef, context |-> Undef], errors |-> Warn(n)]
  ELSE IF f.contexts = Undef
  THEN [cfg |-> [kind |-> f.kind, contexts |-> Some(<<>>), context |-> Undef],
        errors |-> Warn(n)]
  ELSE IF ~TruthyName(ctxname)
  THEN [cfg |-> [kind |-> f.kind, contexts |-> f.contexts, context |-> Undef], errors |-> n]
  ELSE IF ~FindContext(f.contexts[1], ctxname[1])
  THEN [cfg |-> [kind |-> f.kind, contexts |-> f.contexts, context |-> Undef],
        errors |-> Warn(n)]
  ELSE [cfg |-> [kind |-> f.kind, contexts |-> f.contexts, context |-> ctxname], errors |-> n]

\* reading a property of undefined or null throws a TypeError
ReadThrows(cf) == cf.kind \in {"undefined", "null"}

\* ExitStatus with a fault: the counter is not looked at
ExitStatusZero(n) == 0

\* if (errors) process.exit(1); a run that reaches the end otherwise exits with 0
ExitStatus(n) == IF n # 0 THEN 1 ELSE 0

-----------------------------------------------------------------------------
(* CliSpec: one run of the command line, for every command, every outcome  *)
(* of kubectl and of loading the configuration file, and every outcome of  *)
(* the external calls (load, getResources, execSync).                      *)

Commands == {"yaml", "build", "push"}

Argvs ==
  [command : Commands \cup {"help"}, context : {Undef, Some("dev"), Some("qa")},
   output : BOOLEAN]

\* kubectl config current-context: fails, prints nothing, prints a name
KubectlOutcomes == {Undef, Some(""), Some("dev")}

CliContext(n) == [name |-> n, registry |-> Undef, imageTag |-> Undef, images |-> Undef]

\* what the configuration file gives
FileOutcomes ==
  [kind : {"unreadable", "unparsable", "undefined", "null", "scalar"}, contexts : {Undef}]
  \cup
  [kind : {"sequence"}, contexts : {Undef}]
  \cup
  [kind : {"mapping"},
   contexts : {Undef, Some(<<>>), Some(<<CliContext("dev")>>),
               Some(<<CliContext("prod"), CliContext("dev")>>)}]

CliInit ==
  /\ pc = "main"
  /\ argv \in Argvs
  /\ kubectl \in KubectlOutcomes
  /\ file \in FileOutcomes
  /\ cfg = <<>>
  /\ errors = 0
  /\ thrown = Undef
  /\ out = FALSE
  /\ status = Undef
  /\ i = 0
  /\ name = <<>> /\ parts = NoParts /\ context = <<>> /\ app = <<>> /\ images = <<>>
  /\ ret = <<>> /\ config = <<>> /\ layers = <<>> /\ layers0 = <<>> /\ calls = 0
  /\ c = 0 /\ files = <<>> /\ pushed = <<>>

\* an uncaught exception ends the run with status 1
Throw(e) ==
  /\ thrown' = Some(e)
  /\ status' = Some(1)
  /\ pc' = "exited"

\* lines 73-90: not a command, or not two arguments: usage and process.exit(1)
Usage ==
  /\ pc = "main"
  /\ argv.command \notin Commands
  /\ status' = Some(1)
  /\ pc' = "exited"
  /\ UNCHANGED <<name, parts, context, app, i, images, ret, config, layers, layers0, calls, c,
                 files, argv, kubectl, file, cfg, errors, thrown, out, pushed>>

\* const config = init(argv)
RunInit ==
  /\ pc = "main"
  /\ argv.command \in Commands
  /\ LET first == InitContext(argv, kubectl, errors)
         second == InitConfig(file, first.context, first.errors)
     IN  /\ cfg' = second.cfg
         /\ errors' = second.errors
  /\ pc' = argv.command
  /\ UNCHANGED <<name, parts, context, app, i, images, ret, config, layers, layers0, calls, c,
                 files, argv, kubectl, file, thrown, out, status, pushed>>

\* yamlCommand, lines 104-114
YamlCheck ==
  /\ pc = "yaml"
  /\ IF ReadThrows(cfg) \/ (argv.output /\ cfg.contexts = Undef)
     THEN Throw("TypeError") /\ UNCHANGED errors
     ELSE /\ errors' = IF argv.output
                       THEN (IF Len(cfg.contexts[1]) = 0 THEN Warn(errors) ELSE errors)
                       ELSE (IF ~TruthyName(cfg.context) THEN Warn(errors) ELSE errors)
          /\ pc' = "yaml load"
          /\ UNCHANGED <<thrown, status>>
  /\ UNCHANGED <<name, parts, context, app, i, images, ret, config, layers, layers0, calls, c,
                 files, argv, kubectl, file, cfg, out, pushed>>

\* yamlCommand, line 116: load(source) returns the bundle or throws
YamlLoad ==
  /\ pc = "yaml load"
  /\ \/ pc' = "yaml synthesize" /\ UNCHANGED <<thrown, status>>
     \/ Throw("Error")
  /\ UNCHANGED <<name, parts, context, app, i, images, ret, config, layers, layers0, calls, c,
                 files, argv, kubectl, file, cfg, errors, out, pushed>>

\* yamlCommand, lines 219-232: the archiver is filled and finalize runs; the
\* loop of finalize over config.contexts throws when contexts is undefined,
\* and getResources or a write may throw
YamlSynthesize ==
  /\ pc = "yaml synthesize"
  /\ IF cfg.contexts = Undef
     THEN Throw("TypeError")
     ELSE \/ pc' = "yaml pack" /\ UNCHANGED <<thrown, status>>
          \/ Throw("Error")
  /\ UNCHANGED <<name, parts, context, app, i, images, ret, config, layers, layers0, calls, c,
                 files, argv, kubectl, file, cfg, errors, out, pushed>>

\* yamlCommand, lines 234-240: tar or kustomize build; execSync throws when
\* the tool fails
YamlPack ==
  /\ pc = "yaml pack"
  /\ \/ out' = TRUE /\ pc' = "end" /\ UNCHANGED <<thrown, status>>
     \/ Throw("Error") /\ UNCHANGED out
  /\ UNCHANGED <<name, parts, context, app, i, images, ret, config, layers, layers0, calls, c,
                 files, argv, kubectl, file, cfg, errors, pushed>>

\* buildCommand, lines 244 and 270: load(source).getBuilds(), i builds to go
BuildLoad ==
  /\ pc = "build"
  /\ \/ (\E n \in 0..MaxBuilds : i' = n) /\ pc' = "build images" /\ UNCHANGED <<thrown, status>>
     \/ Throw("Error") /\ UNCHANGED i
  /\ UNCHANGED <<name, parts, context, app, images, ret, config, layers, layers0, calls, c,
                 files, argv, kubectl, file, cfg, errors, out, pushed>>

\* buildCommand, lines 246-268: one image: no package.json is a warning and
\* the image is skipped, otherwise the image is built or a tool fails
BuildImage ==
  /\ pc = "build images"
  /\ i > 0
  /\ \/ errors' = Warn(errors) /\ i' = i - 1 /\ UNCHANGED <<pc, thrown, status, out>>
     \/ out' = TRUE /\ i' = i - 1 /\ UNCHANGED <<pc, thrown, status, errors>>
     \/ Throw("Error") /\ UNCHANGED <<i, errors, out>>
  /\ UNCHANGED <<name, parts, context, app, images, ret, config, layers, layers0, calls, c,
                 files, argv, kubectl, file, cfg, pushed>>

\* buildCommand: the loop is over
BuildDone ==
  /\ pc = "build images"
  /\ i = 0
  /\ pc' = "end"
  /\ UNCHANGED <<name, parts, context, app, i, images, ret, config, layers, layers0, calls, c,
                 files, argv, kubectl, file, cfg, errors, thrown, out, status, pushed>>

\* pushCommand, lines 292-299: no context is a warning and the command
\* returns; otherwise load(source).getBuilds(), i images to go
PushCheck ==
  /\ pc = "push"
  /\ IF ReadThrows(cfg)
     THEN Throw("TypeError") /\ UNCHANGED <<errors, i>>
     ELSE IF ~TruthyName(cfg.context)
     THEN /\ errors' = Warn(errors)
          /\ pc' = "end"
          /\ UNCHANGED <<thrown, status, i>>
     ELSE \/ /\ \E n \in 0..MaxBuilds : i' = n
             /\ pc' = "push images"
             /\ UNCHANGED <<thrown, status, errors>>
          \/ Throw("Error") /\ UNCHANGED <<errors, i>>
  /\ UNCHANGED <<name, parts, context, app, images, ret, config, layers, layers0, calls, c,
                 files, argv, kubectl, file, cfg, out, pushed>>

\* pushCommand, lines 300-307: one image is tagged and pushed, or docker fails
PushImage ==
  /\ pc = "push images"
  /\ i > 0
  /\ \/ out' = TRUE /\ i' = i - 1 /\ UNCHANGED <<pc, thrown, status>>
     \/ Throw("Error") /\ UNCHANGED <<i, out>>
  /\ UNCHANGED <<name, parts, context, app, images, ret, config, layers, layers0, calls, c,
                 files, argv, kubectl, file, cfg, errors, pushed>>

\* pushCommand: the loop is over
PushDone ==
  /\ pc = "push images"
  /\ i = 0
  /\ pc' = "end"
  /\ UNCHANGED <<name, parts, context, app, i, images, ret, config, layers, layers0, calls, c,
                 files, argv, kubectl, file, cfg, errors, thrown, out, status, pushed>>

\* lines 322-325: if (errors) process.exit(1), else the script ends
Exit ==
  /\ pc = "end"
  /\ status' = Some(ExitStatus(errors))
  /\ pc' = "exited"
  /\ UNCHANGED <<name, parts, context, app, i, images, ret, config, layers, layers0, calls, c,
                 files, argv, kubectl, file, cfg, errors, thrown, out, pushed>>

CliNext ==
  \/ Usage \/ RunInit
  \/ YamlCheck \/ YamlLoad \/ YamlSynthesize \/ YamlPack
  \/ BuildLoad \/ BuildImage \/ BuildDone
  \/ PushCheck \/ PushImage \/ PushDone
  \/ Exit

CliSpec == CliInit /\ [][CliNext]_vars

-----------------------------------------------------------------------------
(* rename (name, context) and the loop of pushCommand.                     *)

\* RenameFind with a fault: only the literal reference is looked up
RenameFindByNameOnly(ctx, ref, newName) ==
  LET imgs == ExplicitImages(ctx)
      hits == {k \in 1..Len(imgs) : imgs[k].name = ref}
  IN  IF hits = {} THEN Undef ELSE Some(imgs[Min(hits)])

\* (context.images || []).find(image => image.name === name || image.name === newName)
RenameFind(ctx, ref, newName) ==
  LET imgs == ExplicitImages(ctx)
      hits == {k \in 1..Len(imgs) : imgs[k].name = ref \/ imgs[k].name = newName}
  IN  IF hits = {} THEN Undef ELSE Some(imgs[Min(hits)])

\* a || b on optional strings
Or(a, b) == IF Truthy(a) THEN a ELSE b

\* rename, lines 276-289
Rename(ref, ctx) ==
  LET sp == RenameSplitRef(ref)
      image == RenameFind(ctx, ref, sp.newName)
      newName == IF image # Undef
                 THEN Or(image[1].newName, Some(sp.newName))[1]
                 ELSE IF Truthy(ctx.registry) /\ ~Includes(ref, "/")
                      THEN ctx.registry[1] \o <<"/">> \o sp.newName
                      ELSE sp.newName
      newTag == IF image # Undef
                THEN Or(image[1].newTag, sp.newTag)
                ELSE Or(sp.newTag, ctx.imageTag)
  IN  IF Truthy(newTag) THEN newName \o <<":">> \o newTag[1] ELSE newName

RECURSIVE NewSet(_, _)
\* new Set(list): the elements in the order of their first occurrence
NewSet(seen, list) ==
  IF list = <<>> THEN seen
  ELSE IF \E k \in 1..Len(seen) : seen[k] = Head(list) THEN NewSet(seen, Tail(list))
       ELSE NewSet(Append(seen, Head(list)), Tail(list))

-----------------------------------------------------------------------------
(* PushSpec: pushCommand and the finalizeImageRenames of yamlCommand run   *)
(* with the same context on the same application, whose builds are its     *)
(* declared images. pushed is the list of docker tag calls so far.         *)

PushInit ==
  /\ pc = "push images"
  /\ context \in RenameContexts
  /\ app \in ImageLists(MaxImages)
  /\ i = 0
  /\ pushed = <<>>
  /\ ret = <<>>
  /\ images = <<>>
  /\ name = <<>> /\ parts = NoParts
  /\ config = <<>> /\ layers = <<>> /\ layers0 = <<>> /\ calls = 0 /\ c = 0
  /\ files = <<>>
  /\ CliIdle

\* pushCommand, lines 299-307: one image: docker tag name tag, and docker
\* push tag when the tag has a '/'
TagAndPush ==
  /\ pc = "push images"
  /\ i < Len(NewSet(<<>>, app))
  /\ LET ref == NewSet(<<>>, app)[i + 1]
         tag == Rename(ref, context)
     IN  pushed' = Append(pushed, [name |-> ref, tag |-> tag, push |-> Includes(tag, "/")])
  /\ i' = i + 1
  /\ UNCHANGED <<pc, name, parts, context, app, images, ret, config, layers, layers0, calls, c,
                 files, cli>>

\* pushCommand: the loop is over
PushReturn ==
  /\ pc = "push images"
  /\ i = Len(NewSet(<<>>, app))
  /\ pc' = "pushed"
  /\ UNCHANGED <<name, parts, context, app, i, images, ret, config, layers, layers0, calls, c,
                 files, cli, pushed>>

\* finalize, line 189: contextLayer.images = this.finalizeImageRenames(context, app)
YamlRenames ==
  /\ ret = <<>>
  /\ ret' = <<FinalizeImageRenames(context, app)>>
  /\ UNCHANGED <<pc, name, parts, context, app, i, images, config, layers, layers0, calls, c,
                 files, cli, pushed>>

PushNext == TagAndPush \/ PushReturn \/ YamlRenames

PushSpec == PushInit /\ [][PushNext]_vars

-----------------------------------------------------------------------------
(* Claims about the split (SplitSpec).                                     *)

Max(S) == CHOOSE x \in S : \A y \in S : x >= y

Positions(s, ch) == {k \in 0..(Len(s) - 1) : s[k + 1] = ch}

FirstOf(s, ch) == IF Positions(s, ch) = {} THEN -1 ELSE Min(Positions(s, ch))

LastOf(s, ch) == IF Positions(s, ch) = {} THEN -1 ELSE Max(Positions(s, ch))

\* the "last colon after last slash" rule: -1 when no ':' lies after the last '/'
RulePos(s) == IF LastOf(s, ":") > LastOf(s, "/") THEN LastOf(s, ":") ELSE -1

RuleSplit(s) ==
  [newName |-> IF RulePos(s) = -1 THEN s ELSE SubSeq(s, 1, RulePos(s)),
   newTag  |-> IF RulePos(s) = -1 THEN Undef ELSE Some(SubSeq(s, RulePos(s) + 2, Len(s)))]

SplitDone == pc \in {"finalizeImageRenames", "rename"}

\* the ':' that lie after the first '/' (all of them when there is no '/')
ColonsPastFirstSlash(s) == {k \in Positions(s, ":") : k > FirstOf(s, "/")}

\* C6 as stated: the split is (text before, text after) the last ':' that lies
\* after the last '/', and the tag is undefined when there is no such ':'.
C6_LastColonAfterLastSlash == SplitDone => parts = RuleSplit(name)

\* C6 amended: the split is at the FIRST ':' that lies after the FIRST '/' (the
\* first ':' when there is no '/'): the reference is newName ":" newTag with no
\* ':' of newName past the first '/', the tag is undefined exactly when no ':'
\* lies after the first '/', a ':' before the first '/' is never the separator,
\* and the result is that of the "last colon after last slash" rule whenever at
\* most one ':' follows the first '/' and no '/' follows that ':'.
C6_FirstColonAfterFirstSlash ==
  SplitDone =>
    /\ (parts.newTag = Undef) = (ColonsPastFirstSlash(name) = {})
    /\ parts.newTag = Undef => parts.newName = name
    /\ parts.newTag # Undef =>
         /\ name = parts.newName \o <<":">> \o parts.newTag[1]
         /\ Len(parts.newName) > FirstOf(name, "/")
         /\ ColonsPastFirstSlash(parts.newName) = {}
    /\ (/\ Cardinality(ColonsPastFirstSlash(name)) <= 1
        /\ \A k \in ColonsPastFirstSlash(name) : k > LastOf(name, "/"))
         => parts = RuleSplit(name)

\* a reference with a ':' before its first '/' (a port) and a tag after it
C6_Witness ==
  /\ SplitDone
  /\ FirstOf(name, "/") > 0
  /\ FirstOf(name, ":") \in 0..FirstOf(name, "/")
  /\ parts.newTag # Undef
  /\ parts = RuleSplit(name)

-----------------------------------------------------------------------------
(* Claims about finalizeImageRenames (RenameSpec).                         *)

\* the repo part and the tag of a reference, by the split C6 settles on:
\* at the first ':' past the first '/'
RepoPartOf(ref) ==
  IF ColonsPastFirstSlash(ref) = {} THEN ref
  ELSE SubSeq(ref, 1, Min(ColonsPastFirstSlash(ref)))

TagOf(ref) ==
  IF ColonsPastFirstSlash(ref) = {} THEN Undef
  ELSE Some(SubSeq(ref, Min(ColonsPastFirstSlash(ref)) + 2, Len(ref)))

\* the references the loop has consumed so far
Consumed == SubSeq(app, 1, i)

Elems(seq) == {seq[k] : k \in 1..Len(seq)}

ExplicitNames == {r.name : r \in Elems(ExplicitImages(context))}

\* the explicit list holds a rule for the reference or for its repo part
Overridden(ref) == ref \in ExplicitNames \/ RepoPartOf(ref) \in ExplicitNames

\* the part of a returned list that follows the explicit entries
DerivedPart(list) == SubSeq(list, Len(ExplicitImages(context)) + 1, Len(list))

\* every derived list of the state: the one the loop is building and the
\* derived part of each list returned so far
DerivedLists == {images} \cup {DerivedPart(ret[j]) : j \in 1..Len(ret)}

\* C1: a reference whose literal string or whose repo part is the name of an
\* explicit rule of the context gets no derived rule: no derived list, during
\* the loop or returned, holds an entry named after it.
C1_ExplicitSuppressesDerived ==
  \A ref \in Elems(app) :
    Overridden(ref) => \A d \in DerivedLists : \A k \in 1..Len(d) : d[k].name # ref

\* a tagged reference suppressed through its repo part only, beside a derived rule
C1_Witness ==
  /\ pc = "returned"
  /\ \E ref \in Elems(app) : ref \notin ExplicitNames /\ RepoPartOf(ref) \in ExplicitNames
  /\ images # <<>>

\* C2: the returned list is the context's explicit list (same entries, same
\* order, empty when none is declared) followed by the derived rules, so every
\* explicit entry is at a lower index than every derived entry.
C2_ExplicitThenDerived ==
  pc = "returned" =>
    LET list == ret[Len(ret)]
        n    == Len(ExplicitImages(context))
    IN  /\ Len(list) = n + Len(images)
        /\ \A k \in 1..n : list[k] = ExplicitImages(context)[k]
        /\ \A k \in 1..Len(images) : list[n + k] = images[k]
        /\ context.images = Undef => list = images

\* two explicit entries and at least one derived rule were returned
C2_Witness ==
  /\ pc = "returned"
  /\ Len(ExplicitImages(context)) = 2
  /\ images # <<>>

\* no entry for an untagged reference precedes an entry for a tagged one
TaggedFirst(d, Tagged(_)) ==
  \A a, b \in 1..Len(d) : (a < b /\ Tagged(d[b].name)) => Tagged(d[a].name)

HasTag(ref) == TagOf(ref) # Undef

HasNonEmptyTag(ref) == TagOf(ref) # Undef /\ TagOf(ref)[1] # <<>>

\* C3 as stated: in every derived list, after each step of the loop and in the
\* returned list, the rules of references that carry a tag (a ':' past the
\* first '/') precede the rules of references that carry none.
C3_TaggedBeforeUntagged == \A d \in DerivedLists : TaggedFirst(d, HasTag)

\* C3 amended: in every derived list, after each step of the loop and in the
\* returned list, the rules of references that carry a non-empty tag precede
\* the rules of references with no tag or with an empty one (ending in ':').
C3_NonEmptyTaggedBeforeRest == \A d \in DerivedLists : TaggedFirst(d, HasNonEmptyTag)

\* in the middle of the loop, a tagged reference consumed after an untagged one
C3_Witness ==
  /\ pc = "loop"
  /\ i >= 2
  /\ Len(images) >= 2
  /\ HasNonEmptyTag(images[1].name)
  /\ ~HasNonEmptyTag(images[Len(images)].name)
  /\ \E a, b \in 1..i : a < b /\ app[a] = images[Len(images)].name /\ app[b] = images[1].name

RECURSIVE FirstOccurrences(_, _)
\* refs without the later occurrences of a repeated reference; seen is the prefix done
FirstOccurrences(seen, refs) ==
  IF refs = <<>> THEN seen
  ELSE IF Head(refs) \in Elems(seen) THEN FirstOccurrences(seen, Tail(refs))
       ELSE FirstOccurrences(Append(seen, Head(refs)), Tail(refs))

\* C4: the derived list has no two entries of the same name; the later
\* occurrences of a repeated reference change nothing (the list is the one the
\* first occurrences alone produce); and every distinct literal reference that
\* no explicit rule overrides has its own rule, whatever repo part it shares.
C4_DerivedNamesUnique ==
  /\ \A a, b \in 1..Len(images) : images[a].name = images[b].name => a = b
  /\ images = DerivedFrom(context, <<>>, FirstOccurrences(<<>>, Consumed))
  /\ {images[k].name : k \in 1..Len(images)} = {ref \in Elems(Consumed) : ~Overridden(ref)}

\* a repeated reference, and two references with the same repo part, all derived
C4_Witness ==
  /\ pc = "returned"
  /\ \E a, b \in 1..Len(app) : a < b /\ app[a] = app[b] /\ ~Overridden(app[a])
  /\ \E a, b \in 1..Len(images) :
       /\ images[a].name # images[b].name
       /\ RepoPartOf(images[a].name) = RepoPartOf(images[b].name)

Declared(o) == o # Undef

\* the content of the derived rule k, with "declares" and "carries a tag" read by D and T
RuleContent(k, D(_), T(_)) ==
  /\ k.name \in Elems(app)
  /\ (k.newName # Undef) = (D(context.registry) /\ ~Includes(RepoPartOf(k.name), "/"))
  /\ k.newName # Undef => k.newName = Some(context.registry[1] \o <<"/">> \o RepoPartOf(k.name))
  /\ (k.newTag # Undef) = (~T(k.name) /\ D(context.imageTag))
  /\ k.newTag # Undef => k.newTag = context.imageTag
  /\ T(k.name) => k.newTag = Undef

\* C5 as stated: name is the literal reference; newName is present iff the
\* context declares a registry and the repo part has no '/', and is then
\* registry/repoPart; newTag is present iff the reference carries no tag and
\* the context declares imageTag, and is then imageTag.
C5_RuleContent ==
  \A d \in DerivedLists : \A k \in 1..Len(d) : RuleContent(d[k], Declared, HasTag)

\* C5 amended: the same, where "declares a registry / imageTag" means a
\* non-empty one and "carries a tag" means a non-empty tag: an empty registry or
\* imageTag adds nothing, and a reference ending in ':' is handled as untagged.
C5_RuleContentNonEmpty ==
  \A d \in DerivedLists : \A k \in 1..Len(d) : RuleContent(d[k], Truthy, HasNonEmptyTag)

\* a returned list with a rule that got newName and newTag, one for a tagged
\* reference and one for a qualified reference
C5_Witness ==
  /\ pc = "returned"
  /\ \E k \in 1..Len(images) : images[k].newName # Undef /\ images[k].newTag # Undef
  /\ \E k \in 1..Len(images) : HasNonEmptyTag(images[k].name) /\ images[k].newTag = Undef
  /\ \E k \in 1..Len(images) : Includes(images[k].name, "/") /\ images[k].newName = Undef
  /\ Truthy(context.imageTag)

\* C10: a call of finalizeImageRenames leaves the context as it was, and every
\* call made with the same context and application returns the same list,
\* whose derived part has no two entries of the same name and none named as an
\* explicit rule.
C10_Idempotent ==
  [][ /\ context' = context
      /\ \A j \in 1..Len(ret') :
           /\ ret'[j] = ret'[1]
           /\ \A a, b \in 1..Len(DerivedPart(ret'[j])) :
                DerivedPart(ret'[j])[a].name = DerivedPart(ret'[j])[b].name => a = b
           /\ \A a \in 1..Len(DerivedPart(ret'[j])) :
                DerivedPart(ret'[j])[a].name \notin ExplicitNames ]_vars

\* the second call has returned, for an application that repeats a reference
C10_Witness ==
  /\ pc = "returned"
  /\ Len(ret) = 2
  /\ ret[1] = ret[2]
  /\ Len(images) >= 2
  /\ ExplicitImages(context) # <<>>
  /\ \E a, b \in 1..Len(app) : a < b /\ app[a] = app[b]

-----------------------------------------------------------------------------
(* Claims about the layers and the emitted files (Spec).                   *)

\* the layer of a name in a registry, an untouched new layer when it has none
LayerOf(ls, l) == IF HasLayer(ls, l) THEN ls[LayerAt(ls, l)] ELSE NewLayer(l)

LayerNames(ls) == {ls[k].name : k \in 1..Len(ls)}

ContextNames == {config[k].name : k \in 1..Len(config)}

\* the context names are pairwise distinct and none of them is base
ContextNamesProper ==
  /\ "base" \notin ContextNames
  /\ \A a, b \in 1..Len(config) : config[a].name = config[b].name => a = b

\* C7: once finalize has run, the layer of every configured context has
\* exactly one entry in bases, the reference to the base layer, and the base
\* layer has none.
C7_OneBasePerContext ==
  pc = "done" =>
    /\ \A n \in ContextNames : LayerOf(layers, n).bases = <<"./../base">>
    /\ LayerOf(layers, "base").bases = <<>>

\* C7 holds of the configurations whose context names are distinct and not base
C7_WhenNamesProper == ContextNamesProper => C7_OneBasePerContext

\* how often a name is listed
Count(seq, x) == Cardinality({k \in 1..Len(seq) : seq[k] = x})

\* C8: a step that changes the resources of the base layer changes the
\* resources of no other layer; and once finalize has run, every name among the
\* base layer's resources is listed exactly once in the resources of the base
\* kustomization, and the file emitted under that name in base/ holds the
\* object last added under it.
C8_BaseResourcesRoundTrip ==
  [][ /\ LayerOf(layers', "base").resources # LayerOf(layers, "base").resources =>
           \A l \in LayerNames(layers') \ {"base"} :
             LayerOf(layers', l).resources = LayerOf(layers, l).resources
      /\ pc' = "done" =>
           \A k \in 1..Len(LayerOf(layers', "base").resources) :
             LET r == LayerOf(layers', "base").resources[k]
             IN  /\ Count(files'[<<"base", "kustomization.yaml">>][1].resources, r.key) = 1
                 /\ files'[<<"base", r.key>>] = SafeDump(r.value) ]_vars

\* no patch and no JSON patch of the base layer has the file name of a base resource
NoNameShared(ls) ==
  \A r \in Elems(Keys(LayerOf(ls, "base").resources)) :
    /\ r \notin Elems(Keys(LayerOf(ls, "base").patches))
    /\ r \notin Elems(Keys(LayerOf(ls, "base").patchesJSON))

\* C8 holds of the runs in which no base patch shares a base resource's file name
C8_WhenNoNameShared ==
  [][ NoNameShared(layers') =>
      /\ LayerOf(layers', "base").resources # LayerOf(layers, "base").resources =>
           \A l \in LayerNames(layers') \ {"base"} :
             LayerOf(layers', l).resources = LayerOf(layers, l).resources
      /\ pc' = "done" =>
           \A k \in 1..Len(LayerOf(layers', "base").resources) :
             LET r == LayerOf(layers', "base").resources[k]
             IN  /\ Count(files'[<<"base", "kustomization.yaml">>][1].resources, r.key) = 1
                 /\ files'[<<"base", r.key>>] = SafeDump(r.value) ]_vars

Perms(n) == {f \in [1..n -> 1..n] : \A a, b \in 1..n : f[a] = f[b] => a = b}

RECURSIVE FinalizeAll(_, _, _)
\* the loop of finalize over the contexts ctxs
FinalizeAll(ls, ctxs, refs) ==
  IF ctxs = <<>> THEN ls
  ELSE FinalizeAll(FinalizeContextIn(ls, Head(ctxs), refs), Tail(ctxs), refs)

\* C9: a step of finalize's loop over the contexts changes only the layer named
\* after its context and leaves the base layer as getResources populated it;
\* and once the loop is over, every layer holds what it would hold had the
\* contexts been processed in any other order.
C9_ContextsIndependent ==
  [][ /\ (pc = "finalize" /\ c' = c + 1) =>
           /\ \A l \in LayerNames(layers') \ {config[c'].name} :
                LayerOf(layers', l) = LayerOf(layers, l)
           /\ LayerOf(layers', "base") = LayerOf(layers, "base")
      /\ pc' = "done" =>
           \A f \in Perms(Len(config)) :
             LET other == FinalizeAll(layers0, [k \in 1..Len(config) |-> config[f[k]]], app)
             IN  \A l \in LayerNames(layers') : LayerOf(other, l) = LayerOf(layers', l) ]_vars

\* C9 holds of the configurations whose context names are distinct and not base
C9_WhenNamesProper ==
  [][ ContextNamesProper =>
      /\ (pc = "finalize" /\ c' = c + 1) =>
           /\ \A l \in LayerNames(layers') \ {config[c'].name} :
                LayerOf(layers', l) = LayerOf(layers, l)
           /\ LayerOf(layers', "base") = LayerOf(layers, "base")
      /\ pc' = "done" =>
           \A f \in Perms(Len(config)) :
             LET other == FinalizeAll(layers0, [k \in 1..Len(config) |-> config[f[k]]], app)
             IN  \A l \in LayerNames(layers') : LayerOf(other, l) = LayerOf(layers', l) ]_vars

-----------------------------------------------------------------------------
(* Claims about a run of the command line (CliSpec).                       *)

\* the run is over: process.exit was called, an exception was not caught, or
\* the script reached its end
Terminated == pc = "exited"

\* C11: in every run of the command line no step decreases the warning
\* counter, and once the counter is positive the exit status is never 0: a
\* run that recorded a warning and is over has a status, and it is not 0,
\* also when the run produced its output.
C11_WarningsEndNonZero ==
  [][ /\ errors' >= errors
      /\ errors' > 0 => status' # Some(0)
      /\ (errors' > 0 /\ Terminated') => (status' # Undef /\ status'[1] # 0) ]_vars

\* a run that produced its output, recorded a warning and reached its end
C11_Witness ==
  /\ Terminated
  /\ thrown = Undef
  /\ out
  /\ errors > 0
  /\ status = Some(1)

\* the outcome of loading the configuration file is a configuration error:
\* the file cannot be read, does not parse, parses to something that is not a
\* mapping, or is a mapping whose contexts is not a list
ConfigurationError(f) == f.kind # "mapping" \/ f.contexts = Undef

\* init has returned
InitReturned == argv.command \in Commands /\ pc # "main"

\* C12: when loading the configuration file ends in a configuration error,
\* init has recorded at least one warning and has returned a configuration
\* whose contexts is the empty list, and the command runs on with it: no
\* step of the command aborts on the configuration (a TypeError).
C12_ConfigErrorsNotFatal ==
  (InitReturned /\ ConfigurationError(file)) =>
    /\ errors >= 1
    /\ cfg.contexts = Some(<<>>)
    /\ thrown # Some("TypeError")

\* C12 holds of the files that cannot be read or parsed and of the documents
\* that are objects (a mapping without a list under contexts, a sequence)
C12_WhenObjectOrUnloadable ==
  (InitReturned /\ ConfigurationError(file)
     /\ file.kind \in {"unreadable", "unparsable", "sequence", "mapping"}) =>
    /\ errors >= 1
    /\ cfg.contexts = Some(<<>>)
    /\ thrown # Some("TypeError")

-----------------------------------------------------------------------------
(* Claims about rename and finalizeImageRenames together (PushSpec).       *)

\* the first rule of a list whose name is the reference or its repo part
FirstRuleFor(ref, rules) ==
  LET hits == {k \in 1..Len(rules) : rules[k].name = ref \/ rules[k].name = RepoPartOf(ref)}
  IN  IF hits = {} THEN Undef ELSE Some(rules[Min(hits)])

\* a reference put together from a repo part and an optional tag
Joined(repo, tag) == IF tag = Undef THEN repo ELSE repo \o <<":">> \o tag[1]

\* the reference after the first rule that matches it was applied: the repo
\* part replaced by newName when present, the tag by newTag when present, the
\* reference as it is when no rule matches
ApplyFirstRule(ref, rules) ==
  LET rule == FirstRuleFor(ref, rules)
  IN  IF rule = Undef THEN ref
      ELSE Joined(IF Declared(rule[1].newName) THEN rule[1].newName[1] ELSE RepoPartOf(ref),
                  IF Declared(rule[1].newTag) THEN rule[1].newTag ELSE TagOf(ref))

\* the same, with an empty tag of the reference dropped when no newTag replaces it
ApplyFirstRuleDroppingEmptyTag(ref, rules) ==
  LET rule == FirstRuleFor(ref, rules)
      own == IF Truthy(TagOf(ref)) THEN TagOf(ref) ELSE Undef
  IN  IF rule = Undef THEN Joined(RepoPartOf(ref), own)
      ELSE Joined(IF Declared(rule[1].newName) THEN rule[1].newName[1] ELSE RepoPartOf(ref),
                  IF Declared(rule[1].newTag) THEN rule[1].newTag ELSE own)

\* C13 as stated: the name pushCommand tags a declared image with is the
\* image's reference after the first matching rule of the list
\* finalizeImageRenames returns for the same context was applied.
C13_PushAgreesWithYaml ==
  ret # <<>> =>
    \A k \in 1..Len(pushed) :
      pushed[k].name \in Elems(app) =>
        pushed[k].tag = ApplyFirstRule(pushed[k].name, ret[1])

\* C13, amended: the two agree for every declared image whose reference has
\* no tag or a non-empty tag; for a reference with an empty tag (one ending
\* in ':') they agree once the empty tag is dropped, which rename does and
\* the rule does not.
C13_PushAgreesUpToEmptyTag ==
  ret # <<>> =>
    \A k \in 1..Len(pushed) :
      pushed[k].name \in Elems(app) =>
        /\ pushed[k].tag = ApplyFirstRuleDroppingEmptyTag(pushed[k].name, ret[1])
        /\ TagOf(pushed[k].name) # Some(<<>>) =>
             pushed[k].tag = ApplyFirstRule(pushed[k].name, ret[1])

\* a tagged image an explicit rule renames by its repo part, and an untagged
\* one a derived rule qualifies and tags, both tagged as the rules say
C13_Witness ==
  /\ ret # <<>>
  /\ \E k \in 1..Len(pushed) :
       /\ TagOf(pushed[k].name) # Undef /\ TagOf(pushed[k].name) # Some(<<>>)
       /\ FirstRuleFor(pushed[k].name, ret[1]) # Undef
       /\ FirstRuleFor(pushed[k].name, ret[1])[1].name # pushed[k].name
       /\ pushed[k].tag = ApplyFirstRule(pushed[k].name, ret[1])
       /\ pushed[k].tag # pushed[k].name
  /\ \E k \in 1..Len(pushed) :
       /\ TagOf(pushed[k].name) = Undef
       /\ pushed[k].push
       /\ pushed[k].tag = ApplyFirstRule(pushed[k].name, ret[1])
       /\ pushed[k].tag # pushed[k].name

====
